---- MODULE Spec2Model ----
(***************************************************************************)
(* Model of the Office Assistant prototype: run_session (main.py), the     *)
(* concurrent capture coordinator and its two worker threads               *)
(* (recorder.py), transcribe (transcriber.py), summarize_text              *)
(* (summarizer.py) and track_activity (tracker.py).                        *)
(*                                                                         *)
(* Every call into an external library (sounddevice, wave, pyautogui, cv2, *)
(* whisper, openai, pygetwindow, open/json) either returns or raises; the  *)
(* choice is nondeterministic.  An exception raised inside a               *)
(* threading.Thread target ends that thread only: Thread.join() returns    *)
(* normally afterwards.  An exception raised in the main thread is not     *)
(* caught anywhere and ends the call (pc = "failed").                      *)
(***************************************************************************)
EXTENDS Integers, Sequences, FiniteSets, TLC

VARIABLES
    entry,        \* the function the caller invoked: "run_session",
                  \* "record_audio_and_screen" or "track_activity"
    duration,     \* argument `duration`
    prefix,       \* argument `prefix` of run_session
    interval,     \* argument `interval` of track_activity
    api_key,      \* what os.getenv("OPENAI_API_KEY") returns
    pc,           \* position of the main thread
    athread,      \* position of audio_thread (target record_audio)
    vthread,      \* position of video_thread (target record_screen)
    audio,        \* record_audio: number of frames requested from sd.rec, -1 before the call
    vframe,       \* record_screen: iterations of the screenshot loop completed
    ended,        \* the capture threads in the order in which they ended
    files,        \* the disk: path -> [opens, data]
    transcript,   \* run_session local
    summary,      \* run_session local
    api_calls,    \* number of openai.ChatCompletion.create invocations
    now,          \* the clock read by time.time()
    end_time,     \* track_activity local
    records,      \* track_activity local
    winq,         \* outcome of the last pygetwindow.getActiveWindow() call
    log,          \* stages of run_session begun so far, in order
    err,          \* the exception that ended the main thread, "" if none
    retval        \* value returned by the entry function, <<>> before it returns

vars == <<entry, duration, prefix, interval, api_key, pc, athread, vthread, audio,
          vframe, ended, files, transcript, summary, api_calls, now, end_time,
          records, winq, log, err, retval>>

(***************************************************************************)
(* Bounds of the model.                                                    *)
(***************************************************************************)
MaxDuration == 2        \* run_session is called with duration in 0..MaxDuration
MaxTrackDuration == 3   \* track_activity alone: duration in 0..MaxTrackDuration
MaxInterval == 2        \* track_activity alone: interval in 1..MaxInterval
MaxLat == 2             \* a window query or a sleep overruns by 0..MaxLat clock units

Prefixes == {"t", "session"}
ApiKeys == { [set |-> FALSE, value |-> ""],     \* variable absent: getenv gives None
             [set |-> TRUE,  value |-> ""],     \* variable set to the empty string
             [set |-> TRUE,  value |-> "sk"] }
WhisperResults == { [text |-> "hello"], [language |-> "en"] }
ApiReplies == { <<" ", "a", " ">>, <<"a">> }
Titles == {"Editor"}

(***************************************************************************)
(* Program constants (default arguments).                                  *)
(***************************************************************************)
fs == 44100
channels == 2
fps == 20
DefaultInterval == 1

(***************************************************************************)
(* main.py: the five artifact paths.                                       *)
(***************************************************************************)
audio_file == prefix \o "_audio.wav"
video_file == prefix \o "_screen.avi"
transcript_file == prefix \o "_transcript.txt"
summary_file == prefix \o "_summary.txt"
activity_file == prefix \o "_activity.json"

(***************************************************************************)
(* The disk.  Opening a path for writing creates or truncates the file.    *)
(***************************************************************************)
Exists(p) == p \in DOMAIN files
OpenW(f, p, d) ==
    [q \in DOMAIN f \cup {p} |->
        IF q = p THEN [opens |-> (IF p \in DOMAIN f THEN f[p].opens ELSE 0) + 1,
                       data  |-> d]
        ELSE f[q]]
SetData(f, p, d) == [f EXCEPT ![p].data = d]

ThreadEnded(t) == t \in {"finished", "failed"}

Init ==
    /\ entry = "run_session"
    /\ duration \in 0..MaxDuration
    /\ prefix \in Prefixes
    /\ interval = DefaultInterval
    /\ api_key \in ApiKeys
    /\ pc = "run_session"
    /\ athread = "unstarted"
    /\ vthread = "unstarted"
    /\ audio = -1
    /\ vframe = 0
    /\ ended = <<>>
    /\ files = <<>>
    /\ transcript = ""
    /\ summary = <<>>
    /\ api_calls = 0
    /\ now = 0
    /\ end_time = 0
    /\ records = <<>>
    /\ winq = "unasked"
    /\ log = <<>>
    /\ err = ""
    /\ retval = <<>>

captureVars == <<athread, vthread, audio, vframe, ended>>
trackVars == <<now, end_time, records, winq>>
argVars == <<entry, duration, prefix, interval, api_key>>
textVars == <<transcript, summary, api_calls>>

(***************************************************************************)
(* main.py 40-47: the paths are computed and the coordinator is entered.   *)
(***************************************************************************)
run_session_begin ==
    /\ pc = "run_session"
    /\ pc' = "start_audio"
    /\ log' = Append(log, "capture")
    /\ UNCHANGED <<argVars, captureVars, files, textVars, trackVars, err, retval>>

(***************************************************************************)
(* recorder.py 100-106: record_audio_and_screen.                           *)
(***************************************************************************)
audio_thread_start ==
    /\ pc = "start_audio"
    /\ athread = "unstarted"
    /\ athread' = "rec"
    /\ pc' = "start_video"
    /\ UNCHANGED <<argVars, vthread, audio, vframe, ended, files, textVars,
                   trackVars, log, err, retval>>

video_thread_start ==
    /\ pc = "start_video"
    /\ vthread = "unstarted"
    /\ vthread' = "size"
    /\ pc' = "join_audio"
    /\ UNCHANGED <<argVars, athread, audio, vframe, ended, files, textVars,
                   trackVars, log, err, retval>>

audio_thread_join_nowait ==
    /\ pc = "join_audio"
    /\ pc' = "join_video"
    /\ UNCHANGED <<argVars, captureVars, files, textVars, trackVars, log, err, retval>>

audio_thread_join ==
    /\ pc = "join_audio"
    /\ ThreadEnded(athread)
    /\ pc' = "join_video"
    /\ UNCHANGED <<argVars, captureVars, files, textVars, trackVars, log, err, retval>>

video_thread_join_nowait ==
    /\ pc = "join_video"
    /\ pc' = "capture_return"
    /\ UNCHANGED <<argVars, captureVars, files, textVars, trackVars, log, err, retval>>

video_thread_join ==
    /\ pc = "join_video"
    /\ ThreadEnded(vthread)
    /\ pc' = "capture_return"
    /\ UNCHANGED <<argVars, captureVars, files, textVars, trackVars, log, err, retval>>

\* line 106; run_session (main.py 47) discards the returned pair
record_audio_and_screen_return ==
    /\ pc = "capture_return"
    /\ IF entry = "run_session"
          THEN pc' = "transcribe" /\ UNCHANGED retval
          ELSE pc' = "done" /\ retval' = <<audio_file, video_file>>
    /\ UNCHANGED <<argVars, captureVars, files, textVars, trackVars, log, err>>

(***************************************************************************)
(* recorder.py 26-52: record_audio, run by audio_thread.                   *)
(***************************************************************************)
AudioEnds(how) ==
    /\ athread' = how
    /\ ended' = Append(ended, "audio")

\* line 44: sd.rec(int(duration * fs), ...); duration is an int, so is the product
record_audio_rec ==
    /\ athread = "rec"
    /\ \E ok \in BOOLEAN :
          IF ok THEN /\ audio' = duration * fs
                     /\ athread' = "wait"
                     /\ UNCHANGED ended
                ELSE /\ AudioEnds("failed")
                     /\ UNCHANGED audio
    /\ UNCHANGED <<argVars, pc, vthread, vframe, files, textVars, trackVars, log,
                   err, retval>>

\* line 45: sd.wait()
record_audio_wait ==
    /\ athread = "wait"
    /\ \E ok \in BOOLEAN :
          IF ok THEN athread' = "write" /\ UNCHANGED ended
                ELSE AudioEnds("failed")
    /\ UNCHANGED <<argVars, pc, vthread, audio, vframe, files, textVars, trackVars,
                   log, err, retval>>

\* lines 47-51: wave.open(filename, 'wb') and writeframes
record_audio_write ==
    /\ athread = "write"
    /\ \E outcome \in {"ok", "open_fails", "write_fails"} :
          \/ /\ outcome = "ok"
             /\ files' = OpenW(files, audio_file,
                               [kind |-> "wav", nchannels |-> channels, sampwidth |-> 2,
                                framerate |-> fs, frames |-> audio])
             /\ AudioEnds("finished")
          \/ /\ outcome = "open_fails"
             /\ UNCHANGED files
             /\ AudioEnds("failed")
          \/ /\ outcome = "write_fails"
             /\ files' = OpenW(files, audio_file,
                               [kind |-> "wav", nchannels |-> channels, sampwidth |-> 2,
                                framerate |-> fs, frames |-> 0])
             /\ AudioEnds("failed")
    /\ UNCHANGED <<argVars, pc, vthread, audio, vframe, textVars, trackVars, log,
                   err, retval>>

(***************************************************************************)
(* recorder.py 55-79: record_screen, run by video_thread.                  *)
(***************************************************************************)
VideoEnds(how) ==
    /\ vthread' = how
    /\ ended' = Append(ended, "video")

\* line 68: pyautogui.size()
record_screen_size ==
    /\ vthread = "size"
    /\ \E ok \in BOOLEAN :
          IF ok THEN vthread' = "open" /\ UNCHANGED ended
                ELSE VideoEnds("failed")
    /\ UNCHANGED <<argVars, pc, athread, audio, vframe, files, textVars, trackVars,
                   log, err, retval>>

\* lines 70-71: cv2.VideoWriter(filename, fourcc, fps, screen_size)
record_screen_open ==
    /\ vthread = "open"
    /\ \E ok \in BOOLEAN :
          IF ok THEN /\ files' = OpenW(files, video_file,
                                       [kind |-> "avi", rate |-> fps, frames |-> 0,
                                        released |-> FALSE])
                     /\ vthread' = "loop"
                     /\ UNCHANGED ended
                ELSE /\ UNCHANGED files
                     /\ VideoEnds("failed")
    /\ UNCHANGED <<argVars, pc, athread, audio, vframe, textVars, trackVars, log,
                   err, retval>>

\* line 73: for _ in range(int(duration * fps))
ScreenLoopGoesOn_inclusive == vframe <= duration * fps
ScreenLoopGoesOn == vframe < duration * fps

\* lines 74-77: one screenshot, converted and written
record_screen_frame ==
    /\ vthread = "loop"
    /\ ScreenLoopGoesOn
    /\ \E ok \in BOOLEAN :
          IF ok THEN /\ vframe' = vframe + 1
                     /\ files' = SetData(files, video_file,
                                  [files[video_file].data EXCEPT !.frames = @ + 1])
                     /\ UNCHANGED <<vthread, ended>>
                ELSE /\ VideoEnds("failed")
                     /\ UNCHANGED <<vframe, files>>
    /\ UNCHANGED <<argVars, pc, athread, audio, textVars, trackVars, log, err, retval>>

\* line 78: out.release()
record_screen_release ==
    /\ vthread = "loop"
    /\ ~ScreenLoopGoesOn
    /\ files' = SetData(files, video_file,
                        [files[video_file].data EXCEPT !.released = TRUE])
    /\ VideoEnds("finished")
    /\ UNCHANGED <<argVars, pc, athread, audio, vframe, textVars, trackVars, log,
                   err, retval>>

AudioThread == record_audio_rec \/ record_audio_wait \/ record_audio_write
VideoThread == record_screen_size \/ record_screen_open \/ record_screen_frame
                  \/ record_screen_release

(***************************************************************************)
(* An uncaught exception in the main thread ends the call.                 *)
(***************************************************************************)
Raise(e) ==
    /\ pc' = "failed"
    /\ err' = e

(***************************************************************************)
(* transcriber.py 17-37, called at main.py 50.                             *)
(***************************************************************************)
\* line 37: result.get("text", "")
Get(result, key, default) == IF key \in DOMAIN result THEN result[key] ELSE default

\* lines 34-37; model.transcribe reads audio_path and can return only if it exists
transcribe ==
    /\ pc = "transcribe"
    /\ log' = Append(log, "transcribe")
    /\ \/ \E result \in WhisperResults :
             /\ Exists(audio_file)
             /\ transcript' = Get(result, "text", "")
             /\ pc' = "write_transcript"
             /\ UNCHANGED err
       \/ /\ Raise("transcribe")
          /\ UNCHANGED transcript
    /\ UNCHANGED <<argVars, captureVars, files, summary, api_calls, trackVars, retval>>

\* main.py 51-52: open(transcript_file, "w") and write
write_transcript ==
    /\ pc = "write_transcript"
    /\ log' = Append(log, "write_transcript")
    /\ \E outcome \in {"ok", "open_fails", "write_fails"} :
          \/ /\ outcome = "ok"
             /\ files' = OpenW(files, transcript_file, [kind |-> "txt", text |-> transcript])
             /\ pc' = "summarize"
             /\ UNCHANGED err
          \/ /\ outcome = "open_fails"
             /\ UNCHANGED files
             /\ Raise("IOError")
          \/ /\ outcome = "write_fails"
             /\ files' = OpenW(files, transcript_file, [kind |-> "txt", text |-> ""])
             /\ Raise("IOError")
    /\ UNCHANGED <<argVars, captureVars, textVars, trackVars, retval>>

(***************************************************************************)
(* summarizer.py 19-56, called at main.py 55.                              *)
(***************************************************************************)
\* line 43: the truth value of api_key (None and "" are both false)
Truthy_not_None(k) == k.set
Truthy(k) == k.set /\ k.value # ""

\* line 56: str.strip() on the reply, a sequence of characters
RECURSIVE LStrip(_)
LStrip(s) == IF s # <<>> /\ Head(s) = " " THEN LStrip(Tail(s)) ELSE s
RECURSIVE RStrip(_)
RStrip(s) == IF s # <<>> /\ s[Len(s)] = " " THEN RStrip(SubSeq(s, 1, Len(s) - 1)) ELSE s
Strip(s) == RStrip(LStrip(s))

\* lines 42-44
summarize_text_check ==
    /\ pc = "summarize"
    /\ log' = Append(log, "summarize")
    /\ IF Truthy(api_key)
          THEN pc' = "api_call" /\ UNCHANGED err
          ELSE Raise("RuntimeError: OPENAI_API_KEY environment variable not set")
    /\ UNCHANGED <<argVars, captureVars, files, textVars, trackVars, retval>>

\* lines 45-56
summarize_text_call ==
    /\ pc = "api_call"
    /\ api_calls' = api_calls + 1
    /\ \/ \E reply \in ApiReplies :
             /\ summary' = Strip(reply)
             /\ pc' = "write_summary"
             /\ UNCHANGED err
       \/ /\ Raise("ChatCompletion.create")
          /\ UNCHANGED summary
    /\ UNCHANGED <<argVars, captureVars, files, transcript, trackVars, log, retval>>

\* main.py 56-57
write_summary ==
    /\ pc = "write_summary"
    /\ log' = Append(log, "write_summary")
    /\ \E outcome \in {"ok", "open_fails", "write_fails"} :
          \/ /\ outcome = "ok"
             /\ files' = OpenW(files, summary_file, [kind |-> "txt", text |-> summary])
             /\ pc' = "track_activity"
             /\ UNCHANGED err
          \/ /\ outcome = "open_fails"
             /\ UNCHANGED files
             /\ Raise("IOError")
          \/ /\ outcome = "write_fails"
             /\ files' = OpenW(files, summary_file, [kind |-> "txt", text |-> <<>>])
             /\ Raise("IOError")
    /\ UNCHANGED <<argVars, captureVars, textVars, trackVars, retval>>

(***************************************************************************)
(* tracker.py 19-46, called at main.py 60 or directly.                     *)
(***************************************************************************)
None == [none |-> TRUE]
Windows == { [title |-> t] : t \in Titles }

\* line 40: win.title if win else "Unknown"
TitleOf(win) == IF win # None THEN win.title ELSE "Unknown"

\* lines 35-36
track_activity_begin ==
    /\ pc = "track_activity"
    /\ log' = IF entry = "run_session" THEN Append(log, "track_activity") ELSE log
    /\ records' = <<>>
    /\ end_time' = now + duration
    /\ pc' = "track_test"
    /\ UNCHANGED <<argVars, captureVars, files, textVars, now, winq, err, retval>>

\* line 37: time.time() < end_time
LoopCond_inclusive(t, e) == t <= e
LoopCond(t, e) == t < e

track_activity_test ==
    /\ pc = "track_test"
    /\ pc' = IF LoopCond(now, end_time) THEN "track_query" ELSE "track_return"
    /\ UNCHANGED <<argVars, captureVars, files, textVars, trackVars, log, err, retval>>

\* lines 39-44: the query takes lat clock units; the timestamp is read after it
track_activity_query ==
    /\ pc = "track_query"
    /\ \E lat \in 0..MaxLat :
          /\ now' = now + lat
          /\ \/ \E win \in Windows \cup {None} :
                   /\ winq' = IF win = None THEN "none" ELSE "window"
                   /\ records' = Append(records, [timestamp |-> now', title |-> TitleOf(win)])
                   /\ pc' = "track_sleep"
                   /\ UNCHANGED err
             \/ /\ winq' = "raise"
                /\ Raise("getActiveWindow")
                /\ UNCHANGED records
    /\ UNCHANGED <<argVars, captureVars, files, textVars, end_time, log, retval>>

\* line 45: time.sleep(interval) suspends for at least interval
track_activity_sleep ==
    /\ pc = "track_sleep"
    /\ \E over \in 0..MaxLat : now' = now + interval + over
    /\ pc' = "track_test"
    /\ UNCHANGED <<argVars, captureVars, files, textVars, end_time, records, winq,
                   log, err, retval>>

\* line 46
track_activity_return ==
    /\ pc = "track_return"
    /\ IF entry = "run_session"
          THEN pc' = "write_activity" /\ UNCHANGED retval
          ELSE pc' = "done" /\ retval' = records
    /\ UNCHANGED <<argVars, captureVars, files, textVars, trackVars, log, err>>

\* main.py 61-62: json.dump(activity, af, indent=2)
write_activity ==
    /\ pc = "write_activity"
    /\ log' = Append(log, "write_activity")
    /\ \E outcome \in {"ok", "open_fails", "write_fails"} :
          \/ /\ outcome = "ok"
             /\ files' = OpenW(files, activity_file,
                               [kind |-> "json", indent |-> 2, value |-> records])
             /\ pc' = "return"
             /\ UNCHANGED err
          \/ /\ outcome = "open_fails"
             /\ UNCHANGED files
             /\ Raise("IOError")
          \/ /\ outcome = "write_fails"
             /\ files' = OpenW(files, activity_file,
                               [kind |-> "json", indent |-> 2, value |-> <<>>])
             /\ Raise("IOError")
    /\ UNCHANGED <<argVars, captureVars, textVars, trackVars, retval>>

\* main.py 64-65
run_session_return_swapped ==
    /\ pc = "return"
    /\ retval' = <<audio_file, video_file, summary_file, transcript_file>>
    /\ pc' = "done"
    /\ UNCHANGED <<argVars, captureVars, files, textVars, trackVars, log, err>>

run_session_return ==
    /\ pc = "return"
    /\ retval' = <<audio_file, video_file, transcript_file, summary_file>>
    /\ pc' = "done"
    /\ UNCHANGED <<argVars, captureVars, files, textVars, trackVars, log, err>>

(***************************************************************************)
(* The threads and the specifications.                                     *)
(***************************************************************************)
Tracker == track_activity_begin \/ track_activity_test \/ track_activity_query
              \/ track_activity_sleep \/ track_activity_return

MainThread ==
    \/ run_session_begin
    \/ audio_thread_start
    \/ video_thread_start
    \/ audio_thread_join
    \/ video_thread_join
    \/ record_audio_and_screen_return
    \/ transcribe
    \/ write_transcript
    \/ summarize_text_check
    \/ summarize_text_call
    \/ write_summary
    \/ Tracker
    \/ write_activity
    \/ run_session_return

Next == MainThread \/ AudioThread \/ VideoThread

\* One call of run_session(duration, prefix).
Spec == Init /\ [][Next]_vars

\* One call of track_activity(duration, interval).
InitTrack ==
    /\ entry = "track_activity"
    /\ duration \in 0..MaxTrackDuration
    /\ interval \in 1..MaxInterval
    /\ prefix = ""
    /\ api_key = [set |-> FALSE, value |-> ""]
    /\ pc = "track_activity"
    /\ athread = "unstarted"
    /\ vthread = "unstarted"
    /\ audio = -1
    /\ vframe = 0
    /\ ended = <<>>
    /\ files = <<>>
    /\ transcript = ""
    /\ summary = <<>>
    /\ api_calls = 0
    /\ now = 0
    /\ end_time = 0
    /\ records = <<>>
    /\ winq = "unasked"
    /\ log = <<>>
    /\ err = ""
    /\ retval = <<>>

SpecTrack == InitTrack /\ [][Tracker]_vars

\* One call of record_audio_and_screen(audio_file, video_file, duration), with
\* every thread that can take a step eventually taking one.
InitCapture ==
    /\ entry = "record_audio_and_screen"
    /\ duration \in 0..MaxDuration
    /\ prefix \in Prefixes
    /\ interval = DefaultInterval
    /\ api_key = [set |-> FALSE, value |-> ""]
    /\ pc = "start_audio"
    /\ athread = "unstarted"
    /\ vthread = "unstarted"
    /\ audio = -1
    /\ vframe = 0
    /\ ended = <<>>
    /\ files = <<>>
    /\ transcript = ""
    /\ summary = <<>>
    /\ api_calls = 0
    /\ now = 0
    /\ end_time = 0
    /\ records = <<>>
    /\ winq = "unasked"
    /\ log = <<>>
    /\ err = ""
    /\ retval = <<>>

Coordinator ==
    \/ audio_thread_start
    \/ video_thread_start
    \/ audio_thread_join
    \/ video_thread_join
    \/ record_audio_and_screen_return

NextCapture == Coordinator \/ AudioThread \/ VideoThread

FairCapture ==
    /\ InitCapture
    /\ [][NextCapture]_vars
    /\ WF_vars(Coordinator)
    /\ WF_vars(AudioThread)
    /\ WF_vars(VideoThread)

(***************************************************************************)
(* Properties.                                                             *)
(***************************************************************************)
CoordinatorReturned ==
    pc \notin {"run_session", "start_audio", "start_video", "join_audio", "join_video"}

FileUnchanged(p) ==
    /\ (p \in DOMAIN files') = (p \in DOMAIN files)
    /\ p \in DOMAIN files => files'[p] = files[p]

Nondecreasing(r) ==
    \A i \in 1..(Len(r) - 1) : r[i].timestamp <= r[i + 1].timestamp

StageOrder == <<"capture", "transcribe", "write_transcript", "summarize",
                "write_summary", "track_activity", "write_activity">>

\* C1: once record_audio_and_screen has reached its return statement, both
\* capture threads have ended, whichever of them ended first.
C1_JoinBeforeReturn ==
    CoordinatorReturned => ThreadEnded(athread) /\ ThreadEnded(vthread)

C1_Witness ==
    /\ pc = "capture_return"
    /\ ended = <<"video", "audio">>
    /\ duration = 1

\* C2: if a capture task fails inside record_audio_and_screen, the coordinator
\* does not return normally (so run_session does not go on to transcription).
C2_FailureSurfaced ==
    (athread = "failed" \/ vthread = "failed") => ~CoordinatorReturned

StageFailed == pc = "failed" \/ athread = "failed" \/ vthread = "failed"

C4_AbortOnFailure ==
    [][StageFailed =>
          /\ log' = log
          /\ FileUnchanged(transcript_file)
          /\ FileUnchanged(summary_file)
          /\ FileUnchanged(activity_file)
          /\ ThreadEnded(athread) => FileUnchanged(audio_file)
          /\ ThreadEnded(vthread) => FileUnchanged(video_file)]_vars

\* C5 as stated: a successful run_session returns all five artifact paths.
C5_ReturnsFivePaths ==
    pc = "done" =>
        retval = <<prefix \o "_audio.wav", prefix \o "_screen.avi",
                   prefix \o "_transcript.txt", prefix \o "_summary.txt",
                   prefix \o "_activity.json">>

\* C5 as amended: a successful run_session returns four artifact paths, audio,
\* video, transcript and summary in this order, each the prefix followed by its
\* fixed suffix; the activity path, the prefix followed by _activity.json, is
\* written but is not part of the returned value.
C5_ReturnsFourPaths ==
    pc = "done" =>
        /\ retval = <<prefix \o "_audio.wav", prefix \o "_screen.avi",
                      prefix \o "_transcript.txt", prefix \o "_summary.txt">>
        /\ \A i \in 1..Len(retval) : retval[i] # prefix \o "_activity.json"
        /\ Exists(prefix \o "_activity.json")

C5_Witness ==
    /\ pc = "done"
    /\ prefix = "t"
    /\ retval = <<"t_audio.wav", "t_screen.avi", "t_transcript.txt", "t_summary.txt">>

\* C6: a window query that fails, by raising or by returning nothing, is
\* recorded as one sample titled "Unknown" and does not end the sampling loop.
C6_FailedQueryRecorded ==
    winq \in {"none", "raise"} =>
        /\ pc # "failed"
        /\ records # <<>>
        /\ records[Len(records)].title = "Unknown"

\* C7: while the credential is absent or empty the summarization API is never
\* invoked, and summarize_text ends in the configuration error.
CredentialMissing == ~api_key.set \/ api_key.value = ""

C7_NoCallWithoutCredential ==
    CredentialMissing =>
        /\ api_calls = 0
        /\ pc \notin {"api_call", "write_summary"}
        /\ Len(log) <= 4
        /\ Len(log) = 4 =>
              /\ pc = "failed"
              /\ err = "RuntimeError: OPENAI_API_KEY environment variable not set"

C7_Witness ==
    /\ api_key = [set |-> TRUE, value |-> ""]
    /\ log = SubSeq(StageOrder, 1, 4)
    /\ pc = "failed"
    /\ api_calls = 0

\* C8 as stated: track_activity returns a sequence whose length is within 1 of
\* duration / interval, with non-decreasing timestamps.
C8_LengthWithinOne ==
    pc = "done" =>
        /\ Len(retval) * interval <= duration + interval
        /\ Len(retval) * interval >= duration - interval
        /\ Nondecreasing(retval)

\* C8 as amended: with a clock that is never set back, for every duration >= 0
\* and interval > 0, track_activity takes at most ceil(duration / interval)
\* samples, so what it returns is never longer than duration / interval + 1 (it
\* is shorter than duration / interval - 1 when queries or sleeps overrun);
\* timestamps are non-decreasing from each sample to the next; records are only
\* ever appended, one per loop iteration.
C8_LengthAtMostCeil ==
    /\ [](/\ records # <<>> => (Len(records) - 1) * interval < duration
          /\ Nondecreasing(records)
          /\ pc = "done" => retval = records)
    /\ [][\/ records' = records
          \/ /\ pc = "track_query"
             /\ Len(records') = Len(records) + 1
             /\ SubSeq(records', 1, Len(records)) = records
             /\ records'[Len(records')].timestamp = now']_vars

C8_Witness ==
    /\ pc = "done"
    /\ duration = 3
    /\ interval = 2
    /\ Len(retval) = 2
    /\ retval[1].timestamp < retval[2].timestamp

\* C9: a run_session that returns has written exactly the five files
\* <prefix>_audio.wav, _screen.avi, _transcript.txt, _summary.txt and
\* _activity.json, pairwise distinct, each opened for writing exactly once.
FiveNames == {prefix \o "_audio.wav", prefix \o "_screen.avi", prefix \o "_transcript.txt",
              prefix \o "_summary.txt", prefix \o "_activity.json"}

C9_ExactlyFiveFiles ==
    pc = "done" =>
        /\ DOMAIN files = FiveNames
        /\ Cardinality(FiveNames) = 5
        /\ \A p \in DOMAIN files : files[p].opens = 1

\* C10: record_audio_and_screen eventually returns for every duration >= 0
\* (each device call returning or raising); with duration 0 record_screen takes
\* no screenshot, record_audio requests zero frames and the files hold no frame.
C10_ZeroDurationReturns ==
    /\ [](duration = 0 =>
             /\ vframe = 0
             /\ audio \in {-1, 0}
             /\ Exists(audio_file) => files[audio_file].data.frames = 0
             /\ Exists(video_file) => files[video_file].data.frames = 0)
    /\ <>(pc = "done")

C10_Witness ==
    /\ duration = 0
    /\ pc = "done"
    /\ athread = "finished"
    /\ vthread = "finished"
    /\ retval = <<audio_file, video_file>>
    /\ files[audio_file].data.frames = 0
    /\ files[video_file].data.frames = 0
    /\ files[video_file].data.released
====
